---- MODULE Spec2Model ----
(***************************************************************************)
(* The lifecycle gate runner, scripts/run-lifecycle-gates.py, and one of   *)
(* the validators it runs as gates, the security artifact auditor,         *)
(* agents/security/scripts/security-audit.py.                              *)
(*                                                                         *)
(* The gate runner.                                                        *)
(* One invocation of main(): the YAML document at --config is loaded and   *)
(* validated, the stage is resolved, and then either the stage matrix is   *)
(* printed (--list) or the required gates of the stage are run one after   *)
(* the other as child processes and their exit statuses aggregated.        *)
(*                                                                         *)
(* A YAML value is modelled by its shape, as far as the code looks at it:  *)
(* a mapping, a list, a string, or something else ("scalar", "null").      *)
(* Library calls are modelled by their return: yaml.safe_load returns the  *)
(* document, subprocess.run starts the child and returns its returncode    *)
(* (or never returns).  An exception that main() does not catch ends the   *)
(* interpreter with a traceback and exit status 1.                         *)
(***************************************************************************)
EXTENDS Integers, Sequences, FiniteSets, TLC

\* Longest required_gates list of the configs explored.
MaxGates == 2

StageNames == {"planning", "build"}
GateNames == {"lint", "test"}
\* Stage names given to --stage ("" is the option's default).
StageArgs == {"", "planning", "build", "missing"}
\* Values of current_stage.
CurrentStages == {"planning", "build", "missing"}
\* Exit statuses of a gate's child process (negative: killed by a signal).
ExitCodes == {0, 1, 2, -9}

-----------------------------------------------------------------------------
(* YAML values *)

\* An element of a YAML list: a string, or something that is not a string.
Str(s) == [str |-> TRUE, v |-> s]
NonStr == [str |-> FALSE, v |-> "0"]

AllStr(items) == \A i \in 1..Len(items) : items[i].str

\* The strings of a list of strings.
Names(items) == [i \in 1..Len(items) |-> items[i].v]

SeqsUpTo(S, n) == UNION {[1..k -> S] : k \in 0..n}

\* The value under a key: absent, a list, or a value of another type.
Absent == [kind |-> "absent", items |-> <<>>]
Null == [kind |-> "null", items |-> <<>>]
Text == [kind |-> "text", items |-> <<>>]
List(items) == [kind |-> "list", items |-> items]

\* A gate definition: a mapping with a command, or not a mapping at all.
Gate(command) == [kind |-> "map", command |-> command]
ScalarGate == [kind |-> "scalar", command |-> Absent]

\* The definitions tried for gate g; its valid command is the one token g.
GateDefs(g) ==
    {ScalarGate, Gate(Absent), Gate(Text), Gate(List(<<>>)),
     Gate(List(<<Str(g)>>)), Gate(List(<<Str(g), NonStr>>))}

\* A stage definition: a mapping, or not a mapping at all.
Stage(description, required_gates) ==
    [kind |-> "map", description |-> description, required_gates |-> required_gates]
ScalarStage == [kind |-> "scalar", description |-> "absent", required_gates |-> Absent]

GateItems == {Str(g) : g \in GateNames} \cup {NonStr}

\* The definitions tried for the stage "planning".
PlanningDefs ==
    {ScalarStage}
    \cup {Stage("text", r) : r \in {Absent, Null, Text}}
    \cup {Stage("text", List(s)) : s \in SeqsUpTo(GateItems, MaxGates)}
    \cup {Stage(d, List(<<Str("lint")>>)) : d \in {"absent", "null"}}

\* The definitions tried for the stage "build".
BuildDefs ==
    {ScalarStage, Stage("text", List(<<Str("test")>>)),
     Stage("null", List(<<>>)), Stage("text", Null)}

StageMaps ==
    {m \in UNION {[D -> PlanningDefs \cup BuildDefs] : D \in SUBSET StageNames} :
        /\ "planning" \in DOMAIN m => m["planning"] \in PlanningDefs
        /\ "build" \in DOMAIN m => m["build"] \in BuildDefs}

GateMaps ==
    {m \in UNION {[D -> GateDefs("lint") \cup GateDefs("test")] : D \in SUBSET GateNames} :
        /\ "lint" \in DOMAIN m => m["lint"] \in GateDefs("lint")
        /\ "test" \in DOMAIN m => m["test"] = Gate(List(<<Str("test")>>))}

EmptyMap == [n \in {} |-> ScalarStage]

\* The value under a top-level key.
MapValue(m) == [kind |-> "map", m |-> m]
NoValue == [kind |-> "absent", m |-> EmptyMap]
ScalarValue == [kind |-> "scalar", m |-> EmptyMap]
StrValue(s) == [kind |-> "str", v |-> s]
NoStr == [kind |-> "absent", v |-> ""]
ScalarStr == [kind |-> "scalar", v |-> ""]

Config(exists, doc, stages, gates, current_stage) ==
    [exists |-> exists, doc |-> doc, stages |-> stages, gates |-> gates,
     current_stage |-> current_stage]

\* A config that runs: both stages and both gates well defined.
GoodStages ==
    [n \in StageNames |->
        IF n = "planning" THEN Stage("text", List(<<Str("lint"), Str("test")>>))
        ELSE Stage("text", List(<<Str("test")>>))]
GoodGates == [g \in GateNames |-> Gate(List(<<Str(g)>>))]

\* Files that are missing, are not a mapping, or lack a top-level key.
TopLevelConfigs ==
    {Config(e, d, s, g, c) :
        e \in BOOLEAN, d \in {"map", "scalar"},
        s \in {MapValue(GoodStages), NoValue, ScalarValue},
        g \in {MapValue(GoodGates), NoValue, ScalarValue},
        c \in {StrValue("planning"), NoStr, ScalarStr}}

\* Files with the three top-level keys, whatever the stages and gates are.
LoadableConfigs ==
    {Config(TRUE, "map", MapValue(s), MapValue(g), StrValue(c)) :
        s \in StageMaps, g \in GateMaps, c \in CurrentStages}

Configs == TopLevelConfigs \cup LoadableConfigs

-----------------------------------------------------------------------------
(* The functions of the script *)

\* load_config: the error it raises, "" when it returns the document.
load_config(c) ==
    IF ~c.exists THEN "ConfigNotFound"
    ELSE IF c.doc # "map" THEN "NotAMapping"
    ELSE IF c.stages.kind # "map" THEN "NoStagesMapping"
    ELSE IF c.gates.kind # "map" THEN "NoGatesMapping"
    ELSE IF c.current_stage.kind # "str" THEN "NoCurrentStage"
    ELSE ""

\* The test of line 52 on a gate's command.
ValidCommand(command) ==
    command.kind = "list" /\ command.items # <<>> /\ AllStr(command.items)

\* validate_gate_definitions: the error the loop raises at gate, "" if none.
GateError(gate) ==
    IF gate.kind # "map" THEN "GateNotMapping"
    ELSE IF ~ValidCommand(gate.command) THEN "BadCommand"
    ELSE ""

\* A slip: only the gates the current stage requires are validated.
validate_required_gates_only(c) ==
    LET stage == IF c.current_stage.v \in DOMAIN c.stages.m
                 THEN c.stages.m[c.current_stage.v] ELSE ScalarStage
        required == {stage.required_gates.items[k].v :
                        k \in 1..Len(stage.required_gates.items)}
        errors == {GateError(c.gates.m[g]) :
                        g \in required \cap DOMAIN c.gates.m} \ {""}
    IN  IF errors = {} THEN {""} ELSE errors

\* validate_gate_definitions: the errors it can raise (the first offending
\* gate in the order of the file), {""} when it returns.
validate_gate_definitions(c) ==
    LET errors == {GateError(c.gates.m[g]) : g \in DOMAIN c.gates.m} \ {""}
    IN  IF errors = {} THEN {""} ELSE errors

\* A slip: current_stage wins over --stage.
StageNameCurrentFirst(override_stage, current_stage) ==
    IF current_stage # "" THEN current_stage ELSE override_stage

\* Line 60: override_stage or config["current_stage"].
StageName(override_stage, current_stage) ==
    IF override_stage # "" THEN override_stage ELSE current_stage

\* A slip: stages.get(stage_name, {}), an unknown stage is an empty one.
StageGetOrEmpty(stages, stage_name) ==
    IF stage_name \in DOMAIN stages THEN stages[stage_name]
    ELSE [kind |-> "map", description |-> "absent",
          required_gates |-> [kind |-> "absent", items |-> <<>>]]

\* Line 62: stages.get(stage_name); None is not a mapping.
StageGet(stages, stage_name) ==
    IF stage_name \in DOMAIN stages THEN stages[stage_name] ELSE ScalarStage

\* A slip: stage_config.get("required_gates"), None when the key is omitted.
RequiredGatesNoDefault(stage_config) ==
    IF stage_config.required_gates.kind = "absent"
    THEN [kind |-> "null", items |-> <<>>]
    ELSE stage_config.required_gates

\* Line 66: stage_config.get("required_gates", []).
RequiredGates(stage_config) ==
    IF stage_config.required_gates.kind = "absent" THEN List(<<>>)
    ELSE stage_config.required_gates

\* A slip: the existence of the required names checked at resolution.
resolve_stage_checking_gates(c, override_stage) ==
    LET name == IF override_stage # "" THEN override_stage ELSE c.current_stage.v
        stage == IF name \in DOMAIN c.stages.m THEN c.stages.m[name] ELSE ScalarStage
        required == RequiredGates(stage)
    IN  IF stage.kind # "map"
        THEN [error |-> "UnknownStage", stage_name |-> name, stage_config |-> ScalarStage]
        ELSE IF required.kind # "list" \/ ~AllStr(required.items)
        THEN [error |-> "BadRequiredGates", stage_name |-> name,
              stage_config |-> ScalarStage]
        ELSE IF \E k \in 1..Len(required.items) :
                    required.items[k].v \notin DOMAIN c.gates.m
        THEN [error |-> "UnknownGates", stage_name |-> name, stage_config |-> ScalarStage]
        ELSE [error |-> "", stage_name |-> name, stage_config |-> stage]

\* resolve_stage: the error raised ("" if none) and the pair returned.
resolve_stage(c, override_stage) ==
    LET stage_name == StageName(override_stage, c.current_stage.v)
        stage_config == StageGet(c.stages.m, stage_name)
        required_gates == RequiredGates(stage_config)
    IN  IF stage_config.kind # "map"
        THEN [error |-> "UnknownStage", stage_name |-> stage_name,
              stage_config |-> ScalarStage]
        ELSE IF required_gates.kind # "list" \/ ~AllStr(required_gates.items)
        THEN [error |-> "BadRequiredGates", stage_name |-> stage_name,
              stage_config |-> ScalarStage]
        ELSE [error |-> "", stage_name |-> stage_name, stage_config |-> stage_config]

\* print_stage_matrix: whether the loop body runs through for this stage
\* (stage.get, description.strip() and the iteration of required).
Printable(stage) ==
    /\ stage.kind = "map"
    /\ stage.description # "null"
    /\ stage.required_gates.kind # "null"

\* print_stage_matrix returns (it raises nothing).
print_stage_matrix(c) == \A n \in DOMAIN c.stages.m : Printable(c.stages.m[n])

\* A slip: only the first required name is looked up.
UnknownGatesFirstOnly(required_gate_names, gates) ==
    IF required_gate_names # <<>> /\ required_gate_names[1] \notin DOMAIN gates
    THEN <<required_gate_names[1]>>
    ELSE <<>>

\* Line 144: the required names that are no key of gates.
UnknownGates(required_gate_names, gates) ==
    SelectSeq(required_gate_names, LAMBDA gate : gate \notin DOMAIN gates)

\* A slip: the list walked from its end.
LoopGateReversed(required_gate_names, i) ==
    required_gate_names[Len(required_gate_names) + 1 - i]

\* Line 153: the gate of the i-th iteration of the loop.
LoopGate(required_gate_names, i) == required_gate_names[i]

\* A slip: the loop left at the first failure.
LoopEndsOnFailure(required_gate_names, i, failed) ==
    i > Len(required_gate_names) \/ failed # <<>>

\* Line 153: the loop ends when the list is exhausted.
LoopEnds(required_gate_names, i, failed) == i > Len(required_gate_names)

\* A slip: returncode > 0, a child killed by a signal passes.
RecordPositive(failed, gate_name, returncode) ==
    IF returncode > 0 THEN Append(failed, gate_name) ELSE failed

\* Lines 154-155: the failure list after a gate returned returncode.
Record(failed, gate_name, returncode) ==
    IF returncode # 0 THEN Append(failed, gate_name) ELSE failed

\* A slip: failed gates reported with the exit status of a config error.
SummariseExitTwo(failed, required_gate_names) ==
    IF failed # <<>>
    THEN [status |-> "FAILED", count |-> Len(failed), names |-> failed, code |-> 2]
    ELSE [status |-> "PASSED", count |-> Len(required_gate_names), names |-> <<>>,
          code |-> 0]

\* Lines 158-163: the summary and the value main() returns.
Summarise(failed, required_gate_names) ==
    IF failed # <<>>
    THEN [status |-> "FAILED", count |-> Len(failed), names |-> failed, code |-> 1]
    ELSE [status |-> "PASSED", count |-> Len(required_gate_names), names |-> <<>>,
          code |-> 0]

NoSummary == [status |-> "", count |-> 0, names |-> <<>>, code |-> 0]

-----------------------------------------------------------------------------
(* The security artifact auditor: its input and its functions *)

REQUIRED_FILES ==
    <<"threat-model.md", "authorization-review.md", "data-protection.md",
      "secrets-management.md", "owasp-top-10-results.md">>
MIN_STRICT_NON_EMPTY_LINES == 10
MIN_STRICT_SECTION_COUNT == 3
DRAFT_STATUSES == {"draft", "placeholder", "tbd", "todo"}

\* The lines a file is made of.  line.strip() is empty for BlankLines.
BlankLines == {"", "   "}
StatusLines == {"Status: Draft", "Status: TBD", "Status: Approved"}
DateLines == {"Date: 2026-01-15"}
SectionLines == {"## Scope"}

\* A file: whether it exists, and its lines.
File(content) == [exists |-> TRUE, content |-> content]
NoFile == [exists |-> FALSE, content |-> <<>>]

\* The group of the regular expression of line 44, and str.lower().
StatusValue(line) ==
    CASE line = "Status: Draft" -> "Draft"
      [] line = "Status: TBD" -> "TBD"
      [] OTHER -> "Approved"
Lower(status) ==
    CASE status = "Draft" -> "draft"
      [] status = "TBD" -> "tbd"
      [] OTHER -> "approved"

NonEmptyLines(content) == SelectSeq(content, LAMBDA line : line \notin BlankLines)

non_empty_line_count(content) == Len(NonEmptyLines(content))

section_count(content) ==
    Len(SelectSeq(content, LAMBDA line : line \in SectionLines))

is_effectively_empty(content) == non_empty_line_count(content) <= 1

\* extract_status: the first Status: line's value, "" for None.
extract_status(content) ==
    LET found == SelectSeq(content, LAMBDA line : line \in StatusLines)
    IN  IF found = <<>> THEN "" ELSE StatusValue(found[1])

\* The reviews directory: whether it is one, and its entries; dated says
\* that the entry is a file named security-review-YYYY-MM-DD.md.
Reviews(files) == [isdir |-> TRUE, files |-> files]
NoReviews == [isdir |-> FALSE, files |-> <<>>]
ReviewFile(dated, content) == [dated |-> dated, content |-> content]

\* Line 75-77: the review file has enough lines and a Date: header.
UsableReview(content) ==
    /\ non_empty_line_count(content) >= 5
    /\ \E k \in 1..Len(content) : content[k] \in DateLines

validate_dated_review_outputs(reviews) ==
    IF ~reviews.isdir THEN <<"reviews directory not found">>
    ELSE LET candidate_files == SelectSeq(reviews.files, LAMBDA f : f.dated)
         IN  IF candidate_files = <<>> THEN <<"no dated review">>
             ELSE IF \E k \in 1..Len(candidate_files) :
                        UsableReview(candidate_files[k].content)
             THEN <<>>
             ELSE <<"no usable review">>

Message(kind, name) == [kind |-> kind, file |-> name]

\* Lines 126-141: the strict checks of a file that is not empty.
StrictErrors(name, content) ==
    LET status == extract_status(content)
    IN  (IF status = "" THEN <<Message("no status", name)>>
         ELSE IF Lower(status) \in DRAFT_STATUSES THEN <<Message("draft", name)>>
         ELSE <<>>)
        \o (IF section_count(content) < MIN_STRICT_SECTION_COUNT
            THEN <<Message("sections", name)>> ELSE <<>>)
        \o (IF non_empty_line_count(content) < MIN_STRICT_NON_EMPTY_LINES
            THEN <<Message("lines", name)>> ELSE <<>>)

\* Lines 113-141: what one turn of the loop adds to errors and warnings.
CheckFile(name, file, strict) ==
    IF ~file.exists
    THEN [errors |-> <<Message("missing", name)>>, warnings |-> <<>>]
    ELSE IF is_effectively_empty(file.content)
    THEN IF strict
         THEN [errors |-> <<Message("empty", name)>>, warnings |-> <<>>]
         ELSE [errors |-> <<>>, warnings |-> <<Message("empty", name)>>]
    ELSE IF strict
    THEN [errors |-> StrictErrors(name, file.content), warnings |-> <<>>]
    ELSE [errors |-> <<>>, warnings |-> <<>>]

\* Lines 112-141: errors and warnings after the first k required files.
RECURSIVE CheckFiles(_, _, _)
CheckFiles(files, strict, k) ==
    IF k = 0 THEN [errors |-> <<>>, warnings |-> <<>>]
    ELSE LET before == CheckFiles(files, strict, k - 1)
             this == CheckFile(REQUIRED_FILES[k], files[REQUIRED_FILES[k]], strict)
         IN  [errors |-> before.errors \o this.errors,
              warnings |-> before.warnings \o this.warnings]

\* Lines 143-144.
ReviewErrors(dir, strict) ==
    IF strict THEN validate_dated_review_outputs(dir.reviews) ELSE <<>>

\* A slip: warnings fail the audit too.
AuditStatusWarningsFail(errs, warns) ==
    IF errs = <<>> /\ warns = <<>> THEN 0 ELSE 1

\* Lines 156-160: the value main() returns.
AuditStatus(errs, warns) ==
    IF errs = <<>> /\ warns = <<>> THEN 0
    ELSE IF errs # <<>> THEN 1 ELSE 0

\* main() of the auditor on directory dir: its exit status.
AuditMain(dir, strict) ==
    IF ~dir.exists THEN 1
    ELSE LET checked == CheckFiles(dir.files, strict, Len(REQUIRED_FILES))
         IN  AuditStatus(checked.errors \o ReviewErrors(dir, strict), checked.warnings)

\* Contents of a required file.
TitleOnly == <<"# Threat model">>
Stub == <<"# Threat model", "", "To be written.">>
Document(status, sections, paragraphs) ==
    <<"# Threat model", status, "">>
    \o [k \in 1..sections |-> "## Scope"]
    \o [k \in 1..paragraphs |-> "Reviewed with the team."]

FileContents ==
    {<<>>, <<"", "   ">>, TitleOnly, Stub,
     Document("Status: Approved", 3, 5), Document("Status: Draft", 3, 5),
     Document("Status: TBD", 3, 5), Document("Owner: security", 3, 6),
     Document("Status: Approved", 2, 6), Document("Status: Approved", 3, 4)}

\* The states tried for the first required file, the second, and the rest.
FileStates(k) ==
    IF k = 1 THEN {NoFile} \cup {File(c) : c \in FileContents}
    ELSE IF k = 2
    THEN {NoFile, File(TitleOnly), File(Document("Status: Approved", 3, 5)),
          File(Document("Status: Draft", 3, 5))}
    ELSE {NoFile, File(TitleOnly), File(Document("Status: Approved", 3, 5))}

Review(date, paragraphs) ==
    <<"# Security review", date>> \o [k \in 1..paragraphs |-> "Finding."]

ReviewDirs ==
    {NoReviews, Reviews(<<>>),
     Reviews(<<ReviewFile(FALSE, Review("Date: 2026-01-15", 3))>>),
     Reviews(<<ReviewFile(TRUE, Review("Date: 2026-01-15", 2))>>),
     Reviews(<<ReviewFile(TRUE, Review("Undated", 3))>>),
     Reviews(<<ReviewFile(TRUE, Review("Undated", 3)),
               ReviewFile(TRUE, Review("Date: 2026-01-15", 3))>>)}

Directory(files, reviews) == [exists |-> TRUE, files |-> files, reviews |-> reviews]
RequiredFileNames == {REQUIRED_FILES[k] : k \in 1..Len(REQUIRED_FILES)}

NoDirectory ==
    [exists |-> FALSE, files |-> [n \in RequiredFileNames |-> NoFile],
     reviews |-> NoReviews]

\* The required files, given in the order of REQUIRED_FILES.
Files(states) ==
    [n \in RequiredFileNames |->
        states[CHOOSE k \in 1..Len(REQUIRED_FILES) : REQUIRED_FILES[k] = n]]

Directories ==
    {NoDirectory}
    \cup {Directory(Files(<<f1, f2, f3, f4, f5>>), r) :
            f1 \in FileStates(1), f2 \in FileStates(2), f3 \in FileStates(3),
            f4 \in FileStates(4), f5 \in FileStates(5), r \in ReviewDirs}

-----------------------------------------------------------------------------
(* One invocation of the gate runner *)

VARIABLES
    config,          \* the file at --config
    args,            \* the command line: [stage, list]
    pc,              \* where main() is
    stage_name, stage_config,   \* what resolve_stage returned
    i,               \* position of the loop of line 153 in required_gate_names
    running,         \* the child process subprocess.run waits for, if any
    launched,        \* the child processes started, in order
    results,         \* the returncodes run_gate returned, in order
    failures,        \* line 152
    summary,         \* the [SUMMARY] line printed, if any
    error,           \* the error reported, "" if none
    exit_code        \* the exit status of the process, once it has one

\* One invocation of the auditor.
VARIABLES
    base,            \* the directory given to the auditor
    strict,          \* --strict
    audit_pc,        \* where the auditor's main() is
    errors, warnings,   \* lines 109-110
    audit_exit       \* the exit status of the auditor, once it has one

auditor == <<base, strict, audit_pc, errors, warnings, audit_exit>>

runner == <<config, args, pc, stage_name, stage_config, i, running, launched,
            results, failures, summary, error, exit_code>>

vars == <<config, args, pc, stage_name, stage_config, i, running, launched,
          results, failures, summary, error, exit_code,
          base, strict, audit_pc, errors, warnings, audit_exit>>

run == <<i, running, launched, results, failures, summary>>

required_gate_names == Names(RequiredGates(stage_config).items)

\* The gate runner before line 129, whatever the file and the command line.
RunnerStarts ==
    /\ pc = "load"
    /\ stage_name = ""
    /\ stage_config = ScalarStage
    /\ i = 1
    /\ running = <<>>
    /\ launched = <<>>
    /\ results = <<>>
    /\ failures = <<>>
    /\ summary = NoSummary
    /\ error = ""
    /\ exit_code = <<>>

\* The auditor before line 104, whatever the directory and the mode.
AuditorStarts ==
    /\ audit_pc = "start"
    /\ errors = <<>>
    /\ warnings = <<>>
    /\ audit_exit = <<>>

\* An invocation of the gate runner; the auditor is not run.
Init ==
    /\ config \in Configs
    /\ args \in [stage : StageArgs, list : BOOLEAN]
    /\ RunnerStarts
    /\ base = NoDirectory
    /\ strict = FALSE
    /\ AuditorStarts

\* main() returns code, or ends by an exception (code 1).
Exit(code, err) ==
    /\ pc' = "exited"
    /\ exit_code' = <<code>>
    /\ error' = err

\* Line 130.
LoadConfig ==
    /\ pc = "load"
    /\ IF load_config(config) # ""
       THEN Exit(2, load_config(config))
       ELSE pc' = "validate" /\ UNCHANGED <<exit_code, error>>
    /\ UNCHANGED <<auditor, config, args, stage_name, stage_config, run>>

\* Line 131.
ValidateGateDefinitions ==
    /\ pc = "validate"
    /\ \E err \in validate_gate_definitions(config) :
        IF err # ""
        THEN Exit(2, err)
        ELSE pc' = "resolve" /\ UNCHANGED <<exit_code, error>>
    /\ UNCHANGED <<auditor, config, args, stage_name, stage_config, run>>

\* A slip: --list handled before the stage is resolved.
ResolveStageUnlessList ==
    /\ pc = "resolve"
    /\ LET r == resolve_stage(config, args.stage)
       IN  IF r.error # "" /\ ~args.list
           THEN Exit(2, r.error) /\ UNCHANGED <<stage_name, stage_config>>
           ELSE /\ pc' = "resolved"
                /\ stage_name' = r.stage_name
                /\ stage_config' = r.stage_config
                /\ UNCHANGED <<exit_code, error>>
    /\ UNCHANGED <<auditor, config, args, run>>

\* Line 132.
ResolveStage ==
    /\ pc = "resolve"
    /\ LET r == resolve_stage(config, args.stage)
       IN  IF r.error # ""
           THEN Exit(2, r.error) /\ UNCHANGED <<stage_name, stage_config>>
           ELSE /\ pc' = "resolved"
                /\ stage_name' = r.stage_name
                /\ stage_config' = r.stage_config
                /\ UNCHANGED <<exit_code, error>>
    /\ UNCHANGED <<auditor, config, args, run>>

\* A slip: no return after the matrix, the gates of the stage run as well.
ListMatrixNoReturn ==
    /\ pc = "resolved"
    /\ args.list
    /\ IF ~print_stage_matrix(config) THEN Exit(1, "Traceback")
       ELSE IF UnknownGates(required_gate_names, config.gates.m) # <<>>
       THEN Exit(2, "UnknownGates")
       ELSE pc' = "loop" /\ UNCHANGED <<exit_code, error>>
    /\ UNCHANGED <<auditor, config, args, stage_name, stage_config, run>>

\* Lines 137-139.
ListMatrix ==
    /\ pc = "resolved"
    /\ args.list
    /\ IF print_stage_matrix(config) THEN Exit(0, "") ELSE Exit(1, "Traceback")
    /\ UNCHANGED <<auditor, config, args, stage_name, stage_config, run>>

\* Lines 141-150.
CrossReference ==
    /\ pc = "resolved"
    /\ ~args.list
    /\ IF UnknownGates(required_gate_names, config.gates.m) # <<>>
       THEN Exit(2, "UnknownGates")
       ELSE pc' = "loop" /\ UNCHANGED <<exit_code, error>>
    /\ UNCHANGED <<auditor, config, args, stage_name, stage_config, run>>

\* A slip: the child started and not waited for (Popen for run).
StartGateNoWait ==
    /\ pc = "loop"
    /\ ~LoopEnds(required_gate_names, i, failures)
    /\ LET gate_name == LoopGate(required_gate_names, i)
           child == [gate_name |-> gate_name,
                     command |-> Names(config.gates.m[gate_name].command.items)]
       IN  /\ running' = Append(running, child)
           /\ launched' = Append(launched, child)
    /\ i' = i + 1
    /\ results' = Append(results, 0)
    /\ UNCHANGED <<auditor, config, args, pc, stage_name, stage_config, failures,
                   summary, error, exit_code>>

\* Lines 153-154 and 90-99: run_gate starts the child of the next gate.
StartGate ==
    /\ pc = "loop"
    /\ ~LoopEnds(required_gate_names, i, failures)
    /\ LET gate_name == LoopGate(required_gate_names, i)
           child == [gate_name |-> gate_name,
                     command |-> Names(config.gates.m[gate_name].command.items)]
       IN  /\ running' = <<child>>
           /\ launched' = Append(launched, child)
    /\ pc' = "wait"
    /\ UNCHANGED <<auditor, config, args, stage_name, stage_config, i, results, failures,
                   summary, error, exit_code>>

\* A slip: a failed gate is run again.
GateExitRetry ==
    /\ pc = "wait"
    /\ \E returncode \in ExitCodes :
        /\ results' = Append(results, returncode)
        /\ failures' = Record(failures, running[1].gate_name, returncode)
        /\ i' = IF returncode # 0 /\ failures = <<>> THEN i ELSE i + 1
    /\ running' = <<>>
    /\ pc' = "loop"
    /\ UNCHANGED <<auditor, config, args, stage_name, stage_config, launched, summary,
                   error, exit_code>>

\* Lines 99-104 and 154-155: the child exits, run_gate returns its returncode.
GateExit ==
    /\ pc = "wait"
    /\ \E returncode \in ExitCodes :
        /\ results' = Append(results, returncode)
        /\ failures' = Record(failures, running[1].gate_name, returncode)
    /\ running' = <<>>
    /\ i' = i + 1
    /\ pc' = "loop"
    /\ UNCHANGED <<auditor, config, args, stage_name, stage_config, launched, summary,
                   error, exit_code>>

\* A slip: a gate that takes too long is given up (run(..., timeout=t)).
SummaryOrTimeout ==
    \/ /\ pc = "loop"
       /\ LoopEnds(required_gate_names, i, failures)
       /\ summary' = Summarise(failures, required_gate_names)
       /\ Exit(summary'.code, "")
       /\ UNCHANGED <<auditor, config, args, stage_name, stage_config, i, running, launched,
                      results, failures>>
    \/ /\ pc = "wait"
       /\ running' = <<>>
       /\ Exit(1, "Traceback")
       /\ UNCHANGED <<auditor, config, args, stage_name, stage_config, i, launched,
                      results, failures, summary>>

\* Lines 157-163.
Summary ==
    /\ pc = "loop"
    /\ LoopEnds(required_gate_names, i, failures)
    /\ summary' = Summarise(failures, required_gate_names)
    /\ Exit(summary'.code, "")
    /\ UNCHANGED <<auditor, config, args, stage_name, stage_config, i, running, launched,
                   results, failures>>

Next ==
    \/ LoadConfig
    \/ ValidateGateDefinitions
    \/ ResolveStage
    \/ ListMatrix
    \/ CrossReference
    \/ StartGate
    \/ GateExit
    \/ Summary

Spec == Init /\ [][Next]_vars

\* The runner's own steps are taken as long as one is possible; nothing
\* makes a child process exit.
RunnerStep ==
    \/ LoadConfig
    \/ ValidateGateDefinitions
    \/ ResolveStage
    \/ ListMatrix
    \/ CrossReference
    \/ StartGate
    \/ Summary

FairSpec == Spec /\ WF_vars(RunnerStep)

\* The same, when every child process started exits.
ExitingSpec == FairSpec /\ WF_vars(GateExit)

-----------------------------------------------------------------------------
(* One invocation of the auditor *)

\* An invocation of the auditor; the gate runner is not run.
AuditInit ==
    /\ base \in Directories
    /\ strict \in BOOLEAN
    /\ AuditorStarts
    /\ config = Config(FALSE, "scalar", NoValue, NoValue, NoStr)
    /\ args = [stage |-> "", list |-> FALSE]
    /\ RunnerStarts

\* Lines 104-110.
AuditBase ==
    /\ audit_pc = "start"
    /\ IF ~base.exists
       THEN audit_pc' = "done" /\ audit_exit' = <<1>>
       ELSE audit_pc' = "files" /\ UNCHANGED audit_exit
    /\ UNCHANGED <<runner, base, strict, errors, warnings>>

\* Lines 112-141.
AuditFiles ==
    /\ audit_pc = "files"
    /\ LET checked == CheckFiles(base.files, strict, Len(REQUIRED_FILES))
       IN  errors' = checked.errors /\ warnings' = checked.warnings
    /\ audit_pc' = "reviews"
    /\ UNCHANGED <<runner, base, strict, audit_exit>>

\* Lines 143-144.
AuditReviews ==
    /\ audit_pc = "reviews"
    /\ errors' = errors \o ReviewErrors(base, strict)
    /\ audit_pc' = "report"
    /\ UNCHANGED <<runner, base, strict, warnings, audit_exit>>

\* Lines 146-160.
AuditReport ==
    /\ audit_pc = "report"
    /\ audit_exit' = <<AuditStatus(errors, warnings)>>
    /\ audit_pc' = "done"
    /\ UNCHANGED <<runner, base, strict, errors, warnings>>

AuditNext ==
    \/ AuditBase
    \/ AuditFiles
    \/ AuditReviews
    \/ AuditReport

AuditSpec == AuditInit /\ [][AuditNext]_vars

-----------------------------------------------------------------------------
(* What the properties are stated in: the input, read as the format says *)

\* The file exists and holds a mapping with the three top-level keys.
WellFormed(c) ==
    /\ c.exists
    /\ c.doc = "map"
    /\ c.stages.kind = "map"
    /\ c.gates.kind = "map"
    /\ c.current_stage.kind = "str"

\* GateDef: a mapping whose command is a non-empty list of strings.
GateWellDefined(gate) ==
    /\ gate.kind = "map"
    /\ gate.command.kind = "list"
    /\ Len(gate.command.items) > 0
    /\ \A k \in 1..Len(gate.command.items) : gate.command.items[k].str

\* The config loads and every gate of the catalog is well defined.
ValidConfig ==
    /\ WellFormed(config)
    /\ \A g \in DOMAIN config.gates.m : GateWellDefined(config.gates.m[g])

\* The stage asked for: --stage if given, else current_stage.
Wanted == IF args.stage = "" THEN config.current_stage.v ELSE args.stage

WantedIsStage == Wanted \in DOMAIN config.stages.m

\* Its definition is a mapping whose required_gates, if any, lists strings.
WantedWellDefined ==
    /\ WantedIsStage
    /\ LET stage == config.stages.m[Wanted]
       IN  /\ stage.kind = "map"
           /\ \/ stage.required_gates.kind = "absent"
              \/ /\ stage.required_gates.kind = "list"
                 /\ \A k \in 1..Len(stage.required_gates.items) :
                        stage.required_gates.items[k].str

\* The required_gates of the stage asked for, as declared in the file.
Declared ==
    IF WantedWellDefined THEN Names(config.stages.m[Wanted].required_gates.items)
    ELSE <<>>

\* Some declared name is no key of gates.
Dangling == \E k \in 1..Len(Declared) : Declared[k] \notin DOMAIN config.gates.m

\* Every stage has the shape of a StageDef as far as the matrix shows it.
StagesListable ==
    \A n \in DOMAIN config.stages.m :
        /\ config.stages.m[n].kind = "map"
        /\ config.stages.m[n].description \in {"absent", "text"}
        /\ config.stages.m[n].required_gates.kind \in {"absent", "list", "text"}

Exited == pc = "exited"
Summarised == summary.status # ""

\* The names of names[1..k] whose returncode is not 0, in order.
RECURSIVE FailedUpTo(_, _, _)
FailedUpTo(names, rcs, k) ==
    IF k = 0 THEN <<>>
    ELSE IF rcs[k] # 0 THEN Append(FailedUpTo(names, rcs, k - 1), names[k])
    ELSE FailedUpTo(names, rcs, k - 1)

-----------------------------------------------------------------------------
(* Properties *)

\* C1: the child processes are started in the order of required_gates: the
\* k-th process started is the command of the k-th declared gate, whatever
\* the earlier gates returned, and a run that reaches the summary has
\* started one process per declared name.
GatesStartInDeclaredOrder ==
    /\ Len(launched) <= Len(Declared)
    /\ \A k \in 1..Len(launched) :
        /\ launched[k].gate_name = Declared[k]
        /\ launched[k].command = Names(config.gates.m[Declared[k]].command.items)
    /\ Summarised => Len(launched) = Len(Declared)

\* C1 witness: two different gates ran to the summary, the first one failing.
OrderedRunAfterFailure ==
    /\ Summarised
    /\ Len(launched) = 2
    /\ launched[1].gate_name # launched[2].gate_name
    /\ results[1] # 0

\* C2: no short-circuit: the summary is reached only when every declared
\* gate has returned, and the failure list is at every moment, and in the
\* summary, the gates that returned non-zero, in declared order.
NoShortCircuit ==
    /\ Len(results) <= Len(Declared)
    /\ failures = FailedUpTo(Declared, results, Len(results))
    /\ Summarised =>
        /\ Len(results) = Len(Declared)
        /\ summary.names = FailedUpTo(Declared, results, Len(Declared))
        /\ summary.status = "FAILED" <=> \E k \in 1..Len(results) : results[k] # 0

\* C2 witness: the first gate failed, the second ran and failed too, and the
\* summary names both.
BothFailuresListed ==
    /\ Summarised
    /\ results = <<-9, 1>>
    /\ summary.names = Declared
    /\ Len(summary.names) = 2

\* C3: a declared name that is no key of gates, at any position: a run
\* without --list starts no child process and ends with exit status 2.
UnknownGateAbortsBeforeAnyGate ==
    (ValidConfig /\ WantedWellDefined /\ Dangling /\ ~args.list) =>
        /\ launched = <<>>
        /\ pc \in {"load", "validate", "resolve", "resolved", "exited"}
        /\ Exited => exit_code = <<2>> /\ error = "UnknownGates"

\* C3 witness: the unknown name comes after a name that exists.
UnknownAfterKnownAborted ==
    /\ Exited
    /\ ~args.list
    /\ ValidConfig
    /\ Len(Declared) = 2
    /\ Declared[1] \in DOMAIN config.gates.m
    /\ Declared[2] \notin DOMAIN config.gates.m
    /\ exit_code = <<2>>

\* A run without --list on a valid config whose stage resolves and whose
\* required names all exist has ended.
GateRunEnded ==
    Exited /\ ~args.list /\ ValidConfig /\ WantedWellDefined /\ ~Dangling

AllPassed == \A k \in 1..Len(results) : results[k] = 0

ExitTwoLaunchedNothing ==
    exit_code = <<2>> => launched = <<>> /\ results = <<>>

\* C5 witness: exit status 2 for a dangling reference of a stage whose first
\* gate could have run.
ExitTwoOnDanglingReference ==
    /\ exit_code = <<2>>
    /\ error = "UnknownGates"
    /\ Declared # <<>>
    /\ Declared[1] \in DOMAIN config.gates.m

\* C6: with --list no child process is ever started, and the run ends.
ListRunsNothing ==
    /\ [](args.list => launched = <<>> /\ running = <<>> /\ results = <<>>)
    /\ (args.list ~> (Exited /\ launched = <<>>))

\* C6 witness: --list has ended on a config whose stage would run two gates.
ListedRunnableConfig ==
    /\ Exited
    /\ args.list
    /\ ValidConfig /\ WantedWellDefined /\ ~Dangling
    /\ Len(Declared) = 2
    /\ launched = <<>>

Resolved == pc \in {"resolved", "loop", "wait"} \/ (Exited /\ error \in {"", "Traceback", "UnknownGates"})

\* C9: on a valid config resolve_stage returns (n, stages[n]), n being
\* --stage if it is given and names a stage, whatever current_stage is, and
\* current_stage if --stage is empty; the gates run are those of stages[n].
ResolvesOverrideElseCurrent ==
    /\ Resolved =>
        /\ stage_name = Wanted
        /\ WantedIsStage
        /\ stage_config = config.stages.m[Wanted]
    /\ (ValidConfig /\ WantedWellDefined) => pc \in {"load", "validate", "resolve"} \/ Resolved
    /\ \A k \in 1..Len(launched) :
        launched[k].gate_name = Names(config.stages.m[Wanted].required_gates.items)[k]

\* C9 witness: --stage build ran the gate of build, current_stage being
\* planning with other gates.
OverrideRanItsGates ==
    /\ Summarised
    /\ args.stage = "build"
    /\ config.current_stage.v = "planning"
    /\ stage_name = "build"
    /\ launched # <<>>
    /\ "planning" \in DOMAIN config.stages.m
    /\ config.stages.m["planning"] # config.stages.m["build"]

\* C10: a resolved name that is no key of stages, whether it comes from
\* --stage or from current_stage: resolve_stage fails with the unknown
\* stage error, the run exits 2 and starts no gate.
UnknownStageExitsTwo ==
    (ValidConfig /\ ~WantedIsStage) =>
        /\ pc \in {"load", "validate", "resolve", "exited"}
        /\ launched = <<>>
        /\ Exited => exit_code = <<2>> /\ error = "UnknownStage"

\* C10 witness: --stage missing on a config whose current stage would run.
MissingStageRejected ==
    /\ Exited
    /\ args.stage = "missing"
    /\ ValidConfig
    /\ config.current_stage.v \in DOMAIN config.stages.m
    /\ error = "UnknownStage"
    /\ exit_code = <<2>>

\* C11: in a run that passed loading and stage resolution, current_stage is
\* a key of stages.
CurrentStageKeysStages ==
    Resolved => config.current_stage.v \in DOMAIN config.stages.m

\* Some gate of the catalog is not well defined.
SomeGateBad == \E g \in DOMAIN config.gates.m : ~GateWellDefined(config.gates.m[g])

\* C12: every entry of gates is validated, required by the stage or not: a
\* gate whose command is absent, not a list, empty or holds a non-string
\* ends the run with exit status 2 before the stage is resolved and before
\* any gate runs.
EveryGateDefinitionValidated ==
    (WellFormed(config) /\ SomeGateBad) =>
        /\ pc \in {"load", "validate", "exited"}
        /\ stage_name = ""
        /\ launched = <<>>
        /\ Exited => exit_code = <<2>> /\ error \in {"GateNotMapping", "BadCommand"}

\* C12 witness: the run ended with 2 for a gate the stage does not require,
\* the required one being well defined.
UnrequiredBadGateRejected ==
    /\ Exited
    /\ exit_code = <<2>>
    /\ error = "BadCommand"
    /\ DOMAIN config.gates.m = GateNames
    /\ Declared = <<"test">>
    /\ ~GateWellDefined(config.gates.m["lint"])
    /\ GateWellDefined(config.gates.m["test"])

\* The stage asked for is a mapping.
WantedIsMapping == WantedIsStage /\ config.stages.m[Wanted].kind = "map"

\* The value under its required_gates key (kind "absent": no such key).
WantedRequired == config.stages.m[Wanted].required_gates

\* C13: a stage without the required_gates key resolves and has no gates (a
\* run without --list starts none and exits 0); a required_gates that is
\* present but no list of strings fails resolution and the run exits 2.
OmittedRequiredGatesIsEmpty ==
    (ValidConfig /\ WantedIsMapping) =>
        /\ WantedRequired.kind = "absent" =>
            /\ launched = <<>>
            /\ error # "BadRequiredGates"
            /\ pc \notin {"load", "validate", "resolve"} =>
                /\ stage_config = config.stages.m[Wanted]
                /\ required_gate_names = <<>>
            /\ (Exited /\ ~args.list) =>
                /\ exit_code = <<0>>
                /\ summary.status = "PASSED"
                /\ summary.count = 0
        /\ (WantedRequired.kind # "absent" /\ ~WantedWellDefined) =>
            /\ pc \in {"load", "validate", "resolve", "exited"}
            /\ launched = <<>>
            /\ Exited => exit_code = <<2>> /\ error = "BadRequiredGates"

\* C13 witness: the stage has no required_gates key, the run passed with no
\* gate.
StageWithoutGatesPassed ==
    /\ Exited
    /\ ~args.list
    /\ ValidConfig
    /\ WantedIsMapping
    /\ WantedRequired.kind = "absent"
    /\ DOMAIN config.gates.m # {}
    /\ exit_code = <<0>>

\* C14: at most one child process runs at a time, and a child is started
\* only when every child started before has exited and its status has been
\* recorded.
OneGateAtATime ==
    /\ Len(running) <= 1
    /\ Len(launched) = Len(results) + Len(running)
    /\ running # <<>> => pc = "wait" /\ running[1] = launched[Len(launched)]
    /\ pc = "wait" => running # <<>>

\* C14 witness: the second gate runs, the first has exited and is recorded.
SecondGateRunning ==
    /\ pc = "wait"
    /\ Len(launched) = 2
    /\ Len(results) = 1
    /\ running = <<launched[2]>>

\* C15: no timeout and no cancellation.  When every started child exits, the
\* run ends with an exit status among 0, 1 and 2.  While a child has not
\* exited, nothing else happens: no later gate is started, no summary is
\* printed and the process has no exit status.
NoTimeoutNoCancellation ==
    /\ <>(Exited /\ exit_code \in {<<0>>, <<1>>, <<2>>})
    /\ [](pc = "wait" => ~Exited /\ exit_code = <<>> /\ ~Summarised)
    /\ [][(pc = "wait" /\ results' = results) =>
            /\ pc' = "wait"
            /\ launched' = launched
            /\ summary' = summary
            /\ exit_code' = exit_code]_vars

\* C15 witness: the runner waits for the first of two gates.
WaitingForFirstGate ==
    /\ pc = "wait"
    /\ Len(Declared) = 2
    /\ Len(launched) = 1
    /\ results = <<>>
    /\ exit_code = <<>>

\* C16: no gate is retried or skipped: the t-th child started is the gate
\* of position t, a failed one is not run again, and a run that reaches the
\* summary has run every position once; PASSED prints the list's length.
NoRetryNoSkip ==
    /\ pc \in {"loop", "wait"} => Len(launched) = (IF pc = "wait" THEN i ELSE i - 1)
    /\ \A k \in 1..Len(launched) :
        k <= Len(Declared) /\ launched[k].gate_name = Declared[k]
    /\ Summarised =>
        /\ Len(launched) = Len(Declared)
        /\ Len(results) = Len(Declared)
        /\ summary.status = "PASSED" => summary.count = Len(Declared)
        /\ summary.status = "FAILED" => summary.count = Len(failures)

\* C16 witness: a name listed twice was run twice, and PASSED counts two.
DuplicateNameRunTwice ==
    /\ Summarised
    /\ Declared = <<"lint", "lint">>
    /\ Len(launched) = 2
    /\ summary.status = "PASSED"
    /\ summary.count = 2

\* The auditor has ended.
Audited == audit_pc = "done"

\* The lines of content that are not blank.
Written(content) == {k \in 1..Len(content) : content[k] \notin {"", "   "}}

\* The required file name is missing, or is there with at most one line.
Missing(name) == ~base.files[name].exists
AlmostEmpty(name) ==
    base.files[name].exists /\ Cardinality(Written(base.files[name].content)) <= 1

Reported(messages, kind, name) ==
    \E k \in 1..Len(messages) : messages[k] = [kind |-> kind, file |-> name]

\* C17: the auditor exits 1 exactly when the directory is missing or an
\* error was recorded, and 0 with warnings alone.  A missing required file
\* is an error in both modes; an effectively empty one is a warning in
\* light mode and an error with --strict.  A directory that fails in light
\* mode fails with --strict too.
AuditExitConvention ==
    Audited =>
        /\ audit_exit = <<1>> <=> (~base.exists \/ errors # <<>>)
        /\ audit_exit = <<0>> <=> (base.exists /\ errors = <<>>)
        /\ base.exists =>
            \A n \in RequiredFileNames :
                /\ Missing(n) => Reported(errors, "missing", n)
                /\ AlmostEmpty(n) =>
                    IF strict
                    THEN Reported(errors, "empty", n) /\ warnings = <<>>
                    ELSE Reported(warnings, "empty", n)
                         /\ \A k \in 1..Len(errors) : errors[k].file # n
        /\ audit_exit = <<AuditMain(base, strict)>>
        /\ AuditMain(base, FALSE) = 1 => AuditMain(base, TRUE) = 1

\* C17 witness: light mode ended with 0 and a warning for an empty file,
\* on a directory that fails with --strict.
LightModeWarnedOnly ==
    /\ Audited
    /\ ~strict
    /\ audit_exit = <<0>>
    /\ errors = <<>>
    /\ Reported(warnings, "empty", "threat-model.md")
    /\ AuditMain(base, TRUE) = 1

====
